---- MODULE Spec2Model ----
(***************************************************************************)
(* The Sonarr client (src/sonarr/sonarr.py): the cached Application, the   *)
(* HTTP session's lifetime, and the request each endpoint method issues.   *)
(* A caller is one coroutine using the client; a call suspends only at its *)
(* `await self._request(...)` points, so every action below runs one call  *)
(* from one suspension point to the next.                                  *)
(***************************************************************************)
EXTENDS Naturals, Sequences, FiniteSets

\* ------------------------------------------------------------- bounds
\* Number of coroutines that use the one client.
NCallers == 2
\* How many times close_session is invoked in one run.
MaxCloses == 2

Callers == 1..NCallers

\* ------------------------------------------------------------- values
\* A Python value that is None, a str or an int.
PyNone == [kind |-> "none", text |-> "", num |-> 0]
PyS(x) == [kind |-> "str", text |-> x, num |-> 0]
PyI(k) == [kind |-> "int", text |-> "", num |-> k]

Digit(d) == <<"0", "1", "2", "3", "4", "5", "6", "7", "8", "9">>[d + 1]

\* Decimal text of a natural number, as str() prints an int.
RECURSIVE IntToStr(_)
IntToStr(k) == IF k < 10 THEN Digit(k) ELSE IntToStr(k \div 10) \o Digit(k % 10)

\* str(x): a str is returned as is, an int as its decimal text, None as "None".
PyStr(x) ==
    CASE x.kind = "str" -> x.text
      [] x.kind = "int" -> IntToStr(x.num)
      [] OTHER -> "None"

\* ------------------------------------------------ transport (Client)
\* One call of Client._request: the method, the path under the base path, the
\* query parameters as <<key, value>> pairs in the dict's insertion order (no
\* params and an empty dict both send none), and the JSON body as a sequence
\* of zero or one payload.
Request(path, method, params, data) ==
    [path |-> path, method |-> method, params |-> params, data |-> data]

\* _request(path): method defaults to GET, no query parameters, no body.
Get(path) == Request(path, "GET", <<>>, <<>>)

\* The status responses the server may give: no payload (None) or a status.
NoneStatus == [none |-> TRUE, version |-> ""]
StatusPayload(v) == [none |-> FALSE, version |-> v]
StatusResponses == {NoneStatus, StatusPayload("1.0"), StatusPayload("2.0")}

\* The diskspace responses the server may give.
Disk(free) == <<[path |-> "/tv", freeSpace |-> free]>>
DiskspaceResponses == {Disk(100), Disk(50)}

\* ------------------------------------------------------- Application
\* self._application is None.
NoApplication == [present |-> FALSE, info |-> NoneStatus, diskspace |-> <<>>]

\* Application({"info": status, "diskspace": diskspace}).
Application(status, diskspace) ==
    [present |-> TRUE, info |-> status, diskspace |-> diskspace]

\* Application.update_from_dict({"diskspace": diskspace}): the merge replaces
\* the diskspace field and leaves info as stored.
update_from_dict(app, diskspace) == [app EXCEPT !.diskspace = diskspace]

\* ------------------------------------------------------------ models
\* A series as the server's JSON gives it (series/lookup).
Season(k, m) == [monitored |-> m, seasonNumber |-> k]
Image(cover, address) == [coverType |-> cover, url |-> address]
ServerPayloads ==
    { [title |-> "Friends", titleSlug |-> "friends",
       images |-> <<Image("banner", "http://img/b1.jpg"), Image("poster", "http://img/p1.jpg")>>,
       tvdbId |-> 79168,
       seasons |-> <<Season(1, TRUE), Season(2, FALSE)>>],
      [title |-> "Friends", titleSlug |-> "friends",
       images |-> <<Image("poster", "http://img/p1.jpg")>>,
       tvdbId |-> 79168,
       seasons |-> <<Season(1, TRUE), Season(2, FALSE)>>],
      [title |-> "The Office", titleSlug |-> "the-office-us",
       images |-> <<Image("poster", "http://img/p2.jpg"), Image("fanart", "http://img/f2.jpg")>>,
       tvdbId |-> 73244,
       seasons |-> <<Season(0, FALSE)>>],
      [title |-> "Lost", titleSlug |-> "lost",
       images |-> <<Image("poster", "http://img/p3.jpg")>>,
       tvdbId |-> 73739,
       seasons |-> <<>>] }

\* The url of the last image of cover type poster, "" when there is none.
RECURSIVE PosterOf(_)
PosterOf(images) ==
    IF images = <<>> THEN ""
    ELSE IF images[Len(images)].coverType = "poster" THEN images[Len(images)].url
    ELSE PosterOf(SubSeq(images, 1, Len(images) - 1))

\* Season.from_dict and Season.to_dict: a season record and its JSON form.
SeasonFromDict(d) == [monitored |-> d.monitored, number |-> d.seasonNumber]
SeasonToDict(s) == [monitored |-> s.monitored, seasonNumber |-> s.number]

\* [Season.from_dict(season) for season in seasons]
RECURSIVE SeasonsFromDicts(_)
SeasonsFromDicts(ds) ==
    IF ds = <<>> THEN <<>>
    ELSE <<SeasonFromDict(Head(ds))>> \o SeasonsFromDicts(Tail(ds))

\* [season.to_dict() for season in seasons]
RECURSIVE SeasonsToDicts(_)
SeasonsToDicts(ss) ==
    IF ss = <<>> THEN <<>>
    ELSE <<SeasonToDict(Head(ss))>> \o SeasonsToDicts(Tail(ss))

\* SeriesItem.from_dict: the Series sub-record and the seasons in order.
SeriesItemFromDict(d) ==
    [seasons |-> SeasonsFromDicts(d.seasons),
     series |-> [title |-> d.title, slug |-> d.titleSlug,
                 poster |-> PosterOf(d.images), tvdb_id |-> d.tvdbId]]

\* The SeriesItems a lookup can have returned.
SeriesItems == {SeriesItemFromDict(j) : j \in ServerPayloads}

NoItem ==
    [seasons |-> <<>>,
     series |-> [title |-> "", slug |-> "", poster |-> "", tvdb_id |-> 0]]

\* ------------------------------------------------- arguments of a call
\* Defaults of wanted().
DefaultSortKey == "airDateUtc"
DefaultPage == 1
DefaultPageSize == 10
DefaultSortDir == "desc"

NoArgs ==
    [title |-> "", full_update |-> FALSE, start |-> PyNone, end |-> PyNone,
     sort_key |-> PyS(DefaultSortKey), page |-> PyI(DefaultPage),
     page_size |-> PyI(DefaultPageSize), sort_dir |-> PyS(DefaultSortDir),
     command_id |-> 0, series_item |-> NoItem]

\* The values callers pass.
Dates == {PyNone, PyS(""), PyS("2024-01-01"), PyI(20240102)}
SortKeys == {PyS(DefaultSortKey), PyS("bogus")}
SortDirs == {PyS(DefaultSortDir), PyS("sideways")}
Pages == {PyI(DefaultPage), PyI(12)}
PageSizes == {PyI(DefaultPageSize), PyI(250)}
CommandIds == {7, 368630}
Titles == {"Friends", "Lost"}

\* ------------------------------------------------------------- state
VARIABLES
    _application,   \* Sonarr._application: the cached Application or None
    session,        \* the HTTP session: "none", "open" or "closed"
    scope,          \* the async with block: "none", "inside" or "exited"
    closeCalls,     \* close_session invocations so far
    releases,       \* times the session was actually closed
    pc,             \* per caller: where its call is suspended
    op,             \* per caller: the method it is running
    args,           \* per caller: the arguments of its call
    status,         \* per caller: update's local `status`
    diskspace,      \* per caller: update's local `diskspace`
    reqs,           \* per caller: the requests its call has issued, in order
    result,         \* per caller: "none", "ok" or the exception raised
    pre             \* the cache when the latest update() call began

vars == <<_application, session, scope, closeCalls, releases,
          pc, op, args, status, diskspace, reqs, result, pre>>

sessionVars == <<session, scope, closeCalls, releases>>

Init ==
    /\ _application = NoApplication
    /\ session \in {"none", "open"}
    /\ scope = "none"
    /\ closeCalls = 0
    /\ releases = 0
    /\ pc = [c \in Callers |-> "idle"]
    /\ op = [c \in Callers |-> "none"]
    /\ args = [c \in Callers |-> NoArgs]
    /\ status = [c \in Callers |-> NoneStatus]
    /\ diskspace = [c \in Callers |-> <<>>]
    /\ reqs = [c \in Callers |-> <<>>]
    /\ result = [c \in Callers |-> "none"]
    /\ pre = NoApplication

AllIdle == \A c \in Callers : pc[c] = "idle"

\* Client._request up to its suspension: the session is created on first use
\* and the request goes out on it.
Issue(c, req) ==
    /\ session # "closed"
    /\ session' = "open"
    /\ reqs' = [reqs EXCEPT ![c] = Append(@, req)]

\* A call begins: the caller is between calls.
Begin(c, name, a) ==
    /\ pc[c] = "idle"
    /\ op' = [op EXCEPT ![c] = name]
    /\ args' = [args EXCEPT ![c] = a]

\* SonarrError as _request raises it, and as update raises it.
TransportError == "SonarrError: request failed"
EmptyStatusError == "SonarrError: Sonarr returned an empty API status response"
SonarrErrors == {TransportError, EmptyStatusError}

\* A call ends, with its value or with SonarrError.
Finish(c, outcome) ==
    /\ pc' = [pc EXCEPT ![c] = "done"]
    /\ result' = [result EXCEPT ![c] = outcome]

\* ------------------------------------------------------------ update
\* Faulty variants of update's condition: full_update ignored, the None
\* test dropped, the full path always taken.
NeedsFullUpdateNoFlag(app, full_update) == ~app.present
NeedsFullUpdateNoNoneCheck(app, full_update) == full_update
NeedsFullUpdateAlways(app, full_update) == TRUE

\* `self._application is None or full_update`
NeedsFullUpdate(app, full_update) == ~app.present \/ full_update

\* Faulty variant: an empty status is not detected.
StatusIsEmptyNever(s) == FALSE

\* `status is None`
StatusIsEmpty(s) == s.none

\* update(full_update) up to its first await.
Update(c, full_update) ==
    /\ Begin(c, "update", [NoArgs EXCEPT !.full_update = full_update])
    /\ pre' = _application
    /\ IF NeedsFullUpdate(_application, full_update)
       THEN /\ Issue(c, Get("system/status"))
            /\ pc' = [pc EXCEPT ![c] = "await_status"]
       ELSE /\ Issue(c, Get("diskspace"))
            /\ pc' = [pc EXCEPT ![c] = "await_diskspace"]
    /\ UNCHANGED <<_application, scope, closeCalls, releases, status, diskspace, result>>

\* The status request fails in the transport: SonarrError leaves update.
StatusFails(c) ==
    /\ pc[c] = "await_status"
    /\ Finish(c, TransportError)
    /\ UNCHANGED <<_application, sessionVars, op, args, status, diskspace, reqs, pre>>

\* Faulty variant: the new status is stored in the cache before diskspace
\* has been fetched.
StatusEagerStore(c, resp) ==
    /\ pc[c] = "await_status"
    /\ status' = [status EXCEPT ![c] = resp]
    /\ IF StatusIsEmpty(resp)
       THEN /\ Finish(c, EmptyStatusError)
            /\ UNCHANGED <<_application, session, reqs>>
       ELSE /\ Issue(c, Get("diskspace"))
            /\ _application' = Application(resp, _application.diskspace)
            /\ pc' = [pc EXCEPT ![c] = "await_diskspace_full"]
            /\ UNCHANGED result
    /\ UNCHANGED <<scope, closeCalls, releases, op, args, diskspace, pre>>

\* The status response arrives: an empty one raises, any other is kept and
\* diskspace is requested.
StatusArrives(c, resp) ==
    /\ pc[c] = "await_status"
    /\ status' = [status EXCEPT ![c] = resp]
    /\ IF StatusIsEmpty(resp)
       THEN /\ Finish(c, EmptyStatusError)
            /\ UNCHANGED <<session, reqs>>
       ELSE /\ Issue(c, Get("diskspace"))
            /\ pc' = [pc EXCEPT ![c] = "await_diskspace_full"]
            /\ UNCHANGED result
    /\ UNCHANGED <<_application, scope, closeCalls, releases, op, args, diskspace, pre>>

\* The diskspace request of either path fails: SonarrError leaves update.
DiskspaceFails(c) ==
    /\ pc[c] \in {"await_diskspace_full", "await_diskspace"}
    /\ Finish(c, TransportError)
    /\ UNCHANGED <<_application, sessionVars, op, args, status, diskspace, reqs, pre>>

\* The diskspace response of the full path arrives: a fresh Application.
DiskspaceArrivesFull(c, resp) ==
    /\ pc[c] = "await_diskspace_full"
    /\ diskspace' = [diskspace EXCEPT ![c] = resp]
    /\ _application' = Application(status[c], resp)
    /\ Finish(c, "ok")
    /\ UNCHANGED <<sessionVars, op, args, status, reqs, pre>>

\* The diskspace response of the diskspace-only path arrives: merged into
\* whatever self._application holds now.
DiskspaceArrives(c, resp) ==
    /\ pc[c] = "await_diskspace"
    /\ diskspace' = [diskspace EXCEPT ![c] = resp]
    /\ _application' = update_from_dict(_application, resp)
    /\ Finish(c, "ok")
    /\ UNCHANGED <<sessionVars, op, args, status, reqs, pre>>

\* The caller takes the outcome of its call and is free to call again.
Return(c) ==
    /\ pc[c] = "done"
    /\ pc' = [pc EXCEPT ![c] = "idle"]
    /\ op' = [op EXCEPT ![c] = "none"]
    /\ args' = [args EXCEPT ![c] = NoArgs]
    /\ status' = [status EXCEPT ![c] = NoneStatus]
    /\ diskspace' = [diskspace EXCEPT ![c] = <<>>]
    /\ reqs' = [reqs EXCEPT ![c] = <<>>]
    /\ result' = [result EXCEPT ![c] = "none"]
    /\ UNCHANGED <<_application, sessionVars, pre>>

\* ---------------------------------------------- one-request methods
\* A method whose body is one `await self._request(...)`, up to that await.
Single(c, name, a, req) ==
    /\ Begin(c, name, a)
    /\ Issue(c, req)
    /\ pc' = [pc EXCEPT ![c] = "await_request"]
    /\ UNCHANGED <<_application, scope, closeCalls, releases, status, diskspace, result, pre>>

\* Faulty variant: a date is sent only when it is truthy.
CalendarParamsIfTruthy(start, end) ==
    (IF start \notin {PyNone, PyS(""), PyI(0)} THEN <<<<"start", PyS(PyStr(start))>>>> ELSE <<>>)
        \o (IF end \notin {PyNone, PyS(""), PyI(0)} THEN <<<<"end", PyS(PyStr(end))>>>> ELSE <<>>)

\* calendar's params: a date is sent, string-encoded, only when supplied.
CalendarParams(start, end) ==
    (IF start # PyNone THEN <<<<"start", PyS(PyStr(start))>>>> ELSE <<>>)
        \o (IF end # PyNone THEN <<<<"end", PyS(PyStr(end))>>>> ELSE <<>>)

Calendar(c, start, end) ==
    /\ Single(c, "calendar", [NoArgs EXCEPT !.start = start, !.end = end],
              Request("calendar", "GET", CalendarParams(start, end), <<>>))

Commands(c) ==
    /\ Single(c, "commands", NoArgs, Get("command"))

CommandStatus(c, command_id) ==
    /\ Single(c, "command_status", [NoArgs EXCEPT !.command_id = command_id],
              Get("command/" \o IntToStr(command_id)))

Queue(c) ==
    /\ Single(c, "queue", NoArgs, Get("queue"))

Series(c) ==
    /\ Single(c, "series", NoArgs, Get("series"))

\* Faulty variant: page is sent as given.
WantedParamsRawPage(sort_key, page, page_size, sort_dir) ==
    <<<<"sortKey", sort_key>>, <<"page", page>>,
      <<"pageSize", PyS(PyStr(page_size))>>, <<"sortDir", sort_dir>>>>

\* wanted's params: the four keys, page and page_size string-encoded.
WantedParams(sort_key, page, page_size, sort_dir) ==
    <<<<"sortKey", sort_key>>, <<"page", PyS(PyStr(page))>>,
      <<"pageSize", PyS(PyStr(page_size))>>, <<"sortDir", sort_dir>>>>

Wanted(c, sort_key, page, page_size, sort_dir) ==
    /\ Single(c, "wanted",
              [NoArgs EXCEPT !.sort_key = sort_key, !.page = page,
                             !.page_size = page_size, !.sort_dir = sort_dir],
              Request("wanted/missing", "GET",
                      WantedParams(sort_key, page, page_size, sort_dir), <<>>))

\* Faulty variant: the lookup is sent as a POST.
GetSeriesRequestPost(title) ==
    Request("series/lookup?term=" \o title, "POST", <<>>, <<>>)

\* get_series's request: the title goes into the path as written.
GetSeriesRequest(title) == Get("series/lookup?term=" \o title)

GetSeries(c, title) ==
    /\ Single(c, "get_series", [NoArgs EXCEPT !.title = title], GetSeriesRequest(title))

\* Faulty variant: titleSlug is taken from the title.
AddSeriesPayloadSlugFromTitle(series_item) ==
    [path |-> "/tv/" \o series_item.series.title,
     monitored |-> TRUE,
     title |-> series_item.series.title,
     titleSlug |-> series_item.series.title,
     images |-> <<Image("poster", series_item.series.poster)>>,
     tvdbId |-> series_item.series.tvdb_id,
     seasons |-> SeasonsToDicts(series_item.seasons),
     qualityProfileId |-> 1,
     rootFolderPath |-> "/tv",
     addOptions |-> [searchForMissingEpisodes |-> TRUE]]

\* add_series's creation payload (a dict: the order of its keys carries no
\* meaning).
AddSeriesPayload(series_item) ==
    [path |-> "/tv/" \o series_item.series.title,
     monitored |-> TRUE,
     title |-> series_item.series.title,
     titleSlug |-> series_item.series.slug,
     images |-> <<Image("poster", series_item.series.poster)>>,
     tvdbId |-> series_item.series.tvdb_id,
     seasons |-> SeasonsToDicts(series_item.seasons),
     qualityProfileId |-> 1,
     rootFolderPath |-> "/tv",
     addOptions |-> [searchForMissingEpisodes |-> TRUE]]

AddSeries(c, series_item) ==
    /\ Single(c, "add_series", [NoArgs EXCEPT !.series_item = series_item],
              Request("series", "POST", <<>>, <<AddSeriesPayload(series_item)>>))

\* The one request of such a method fails in the transport.
RequestFails(c) ==
    /\ pc[c] = "await_request"
    /\ Finish(c, TransportError)
    /\ UNCHANGED <<_application, sessionVars, op, args, status, diskspace, reqs, pre>>

\* The methods that iterate over the response (`for result in results`), the
\* ones that hand it to a from_dict, and what each raises on a response that
\* is None; add_series returns the response as it is.
IteratingMethods == {"calendar", "commands", "queue", "series", "get_series"}
FromDictMethods == {"command_status", "wanted"}
NotIterableError == "TypeError: 'NoneType' object is not iterable"
FromDictError == "AttributeError: 'NoneType' object has no attribute 'get'"

\* What a one-request method ends with once its response is in hand.
MapResponse(name, absent) ==
    IF absent /\ name \in IteratingMethods THEN NotIterableError
    ELSE IF absent /\ name \in FromDictMethods THEN FromDictError
    ELSE "ok"

\* Its response arrives, a payload or None, and the method maps it to its
\* return value or raises while doing so.
ResponseArrives(c, absent) ==
    /\ pc[c] = "await_request"
    /\ Finish(c, MapResponse(op[c], absent))
    /\ UNCHANGED <<_application, sessionVars, op, args, status, diskspace, reqs, pre>>

\* ----------------------------------------------------------- session
\* Client.close_session: closes the session if one is open.
close_session ==
    /\ closeCalls' = closeCalls + 1
    /\ IF session = "open"
       THEN session' = "closed" /\ releases' = releases + 1
       ELSE UNCHANGED <<session, releases>>

\* An explicit close by the owner, outside any async with block.
Close ==
    /\ AllIdle
    /\ scope # "inside"
    /\ closeCalls < MaxCloses
    /\ close_session
    /\ UNCHANGED <<_application, scope, pc, op, args, status, diskspace, reqs, result, pre>>

\* __aenter__: returns the client.
AEnter ==
    /\ AllIdle
    /\ scope = "none"
    /\ scope' = "inside"
    /\ UNCHANGED <<_application, session, closeCalls, releases,
                   pc, op, args, status, diskspace, reqs, result, pre>>

\* Faulty variant: the session is closed only when the body did not raise.
AExitOnlyOnSuccess(raised) ==
    /\ AllIdle
    /\ scope = "inside"
    /\ scope' = "exited"
    /\ IF raised THEN UNCHANGED <<session, closeCalls, releases>> ELSE close_session
    /\ UNCHANGED <<_application, pc, op, args, status, diskspace, reqs, result, pre>>

\* __aexit__(*exc_info): the block is left, normally or because its body
\* raised; the session is closed either way.
AExit(raised) ==
    /\ AllIdle
    /\ scope = "inside"
    /\ scope' = "exited"
    /\ close_session
    /\ UNCHANGED <<_application, pc, op, args, status, diskspace, reqs, result, pre>>

\* ---------------------------------------------------- specifications
\* A step of a call in flight: a response or a failure reaches it, or its
\* caller takes the outcome.
Continue(c) ==
    \/ StatusFails(c)
    \/ \E r \in StatusResponses : StatusArrives(c, r)
    \/ DiskspaceFails(c)
    \/ \E r \in DiskspaceResponses : DiskspaceArrivesFull(c, r)
    \/ \E r \in DiskspaceResponses : DiskspaceArrives(c, r)
    \/ RequestFails(c)
    \/ \E absent \in BOOLEAN : ResponseArrives(c, absent)
    \/ Return(c)

\* Any method, with any arguments.
Call(c) ==
    \/ \E f \in BOOLEAN : Update(c, f)
    \/ \E s \in Dates, e \in Dates : Calendar(c, s, e)
    \/ Commands(c)
    \/ \E k \in CommandIds : CommandStatus(c, k)
    \/ Queue(c)
    \/ Series(c)
    \/ \E k \in SortKeys, p \in Pages, z \in PageSizes, d \in SortDirs : Wanted(c, k, p, z, d)
    \/ \E t \in Titles : GetSeries(c, t)
    \/ \E item \in SeriesItems : AddSeries(c, item)

\* update with either flag, and of the one-request methods a GET and the
\* POST, with one choice of arguments each.
CallAny(c) ==
    \/ \E f \in BOOLEAN : Update(c, f)
    \/ Calendar(c, PyNone, PyNone)
    \/ \E item \in {i \in SeriesItems : i.series.title = "Lost"} : AddSeries(c, item)

\* The client used as documented: its owner makes one call at a time, and
\* may scope the client with async with or close it explicitly.
Next ==
    \/ \E c \in Callers : AllIdle /\ Call(c)
    \/ \E c \in Callers : Continue(c)
    \/ Close
    \/ AEnter
    \/ \E raised \in BOOLEAN : AExit(raised)

Spec == Init /\ [][Next]_vars

\* Several coroutines call the client at once and interleave at their awaits.
NextInterleaved ==
    \/ \E c \in Callers : CallAny(c)
    \/ \E c \in Callers : Continue(c)

SpecInterleaved == Init /\ [][NextInterleaved]_vars

\* ------------------------------------------------------------ claims
\* An update() call of caller c has returned normally.
UpdateReturned(c) == op[c] = "update" /\ pc[c] = "done" /\ result[c] = "ok"

\* C1: with calls made serially, an update() that is the first one (the cache
\* was absent when it began) or has full_update=true leaves the cache holding
\* exactly the status and the diskspace that call fetched; any other update()
\* leaves info as it was when the call began and sets diskspace to the
\* diskspace that call fetched.
C1_UpdateReplacesOrMerges ==
    \A c \in Callers :
        UpdateReturned(c) =>
            /\ _application.present
            /\ _application.diskspace = diskspace[c]
            /\ diskspace[c] \in DiskspaceResponses
            /\ IF ~pre.present \/ args[c].full_update
               THEN /\ _application.info = status[c]
                    /\ status[c] \in StatusResponses \ {NoneStatus}
               ELSE _application.info = pre.info

\* The spec's scenario: status 1.0 and free space 100 are cached, then a
\* plain update() has fetched free space 50.
C1_Witness ==
    \E c \in Callers :
        /\ UpdateReturned(c)
        /\ ~args[c].full_update
        /\ pre = Application(StatusPayload("1.0"), Disk(100))
        /\ _application.info.version = "1.0"
        /\ _application.diskspace[1].freeSpace = 50

\* C2: when the response to update()'s status request is empty, the call
\* ends with SonarrError and the cache is what it was when the call began.
C2_EmptyStatusFailsUnchanged ==
    [][\A c \in Callers :
          (pc[c] = "await_status" /\ pc'[c] # "await_status" /\ status'[c] = NoneStatus)
              => /\ pc'[c] = "done"
                 /\ result'[c] \in SonarrErrors
                 /\ _application' = _application
                 /\ _application' = pre']_vars

\* A full_update=true call on a populated cache got an empty status.
C2_Witness ==
    \E c \in Callers :
        /\ op[c] = "update"
        /\ args[c].full_update
        /\ result[c] = EmptyStatusError
        /\ pre.present
        /\ _application = pre

\* C3: the session is closed at most once, and is closed exactly when it has
\* been released; leaving the async with block invokes close_session on the
\* normal and on the raising exit alike and leaves no open session; a close
\* that finds no open session changes nothing; no step taken while the block
\* is running releases the session.
C3_SessionReleasedOnce ==
    [][/\ releases' <= 1
       /\ (session' = "closed") <=> (releases' = 1)
       /\ (scope = "inside" /\ scope' = "exited")
              => /\ closeCalls' = closeCalls + 1
                 /\ session' # "open"
                 /\ (session = "open" => releases' = releases + 1)
       /\ (scope = "inside" /\ scope' = "inside")
              => (releases' = releases /\ closeCalls' = closeCalls)
       /\ (closeCalls' # closeCalls /\ session # "open")
              => (session' = session /\ releases' = releases)]_vars

\* The block was left with the session closed once, and a second close
\* followed.
C3_Witness ==
    /\ scope = "exited"
    /\ closeCalls = 2
    /\ releases = 1
    /\ session = "closed"

\* C4: the cache starts absent, becomes populated only by an update() that
\* returns normally, and once populated stays populated, whatever callers
\* interleave; a diskspace-only update is never in flight on an absent cache.
C4_CacheNeverAbsentAgain ==
    [][/\ _application.present => _application'.present
       /\ (~_application.present /\ _application'.present)
              => \E c \in Callers :
                    /\ op[c] = "update"
                    /\ pc[c] = "await_diskspace_full"
                    /\ pc'[c] = "done"
                    /\ result'[c] = "ok"
       /\ \A c \in Callers :
              pc'[c] = "await_diskspace" => _application'.present]_vars

\* Two update() calls are in flight at once on a populated cache: a plain
\* one awaiting diskspace and a full one that already holds its status.
C4_Witness ==
    \E c, d \in Callers :
        /\ pc[c] = "await_diskspace"
        /\ pc[d] = "await_diskspace_full"
        /\ args[d].full_update
        /\ _application.present

ReadOnlyMethods ==
    {"calendar", "commands", "command_status", "queue", "series", "wanted", "get_series"}

\* C5: no step of calendar, commands, command_status, queue, series, wanted
\* or get_series changes the cache, whether the call succeeds or fails, and
\* every request they issue is a GET; a step that changes the cache is a
\* step of update; a request that is not a GET is add_series's POST series.
C5_ReadOnlyMethods ==
    [][/\ \A c \in Callers :
              ((op[c] \in ReadOnlyMethods \/ op'[c] \in ReadOnlyMethods) /\ pc'[c] # pc[c])
                  => _application' = _application
       /\ \A c \in Callers :
              op'[c] \in ReadOnlyMethods
                  => \A i \in DOMAIN reqs'[c] : reqs'[c][i].method = "GET"
       /\ (_application' # _application)
              => \E c \in Callers : op[c] = "update" /\ pc'[c] # pc[c]
       /\ \A c \in Callers : \A i \in DOMAIN reqs'[c] :
              reqs'[c][i].method # "GET"
                  => (op'[c] = "add_series" /\ reqs'[c][i].method = "POST"
                         /\ reqs'[c][i].path = "series")]_vars

\* A get_series() call has failed on a populated cache, raising while it
\* maps a response that is None.
C5_Witness ==
    \E c \in Callers :
        /\ op[c] = "get_series"
        /\ pc[c] = "done"
        /\ result[c] = NotIterableError
        /\ reqs[c] = <<Get("series/lookup?term=Friends")>>
        /\ _application.present

\* C6: a call issues at most two requests. update() on an absent cache or
\* with full_update=true requests system/status first, and diskspace second
\* only once a non-empty status response is in hand; update() on a populated
\* cache without full_update requests diskspace and nothing else; every other
\* method has issued exactly one request.
C6_RequestSequence ==
    \A c \in Callers :
        /\ Len(reqs[c]) <= 2
        /\ op[c] = "none" => reqs[c] = <<>>
        /\ (op[c] = "update" /\ (~pre.present \/ args[c].full_update))
              => /\ reqs[c] \in {<<Get("system/status")>>,
                                 <<Get("system/status"), Get("diskspace")>>}
                 /\ pc[c] = "await_status" => Len(reqs[c]) = 1
                 /\ Len(reqs[c]) = 2 => status[c] \in StatusResponses \ {NoneStatus}
        /\ (op[c] = "update" /\ pre.present /\ ~args[c].full_update)
              => reqs[c] = <<Get("diskspace")>>
        /\ op[c] \notin {"none", "update"} => Len(reqs[c]) = 1

\* A plain update() on a populated cache has returned after its one request.
C6_Witness ==
    \E c \in Callers :
        /\ UpdateReturned(c)
        /\ pre.present
        /\ ~args[c].full_update
        /\ reqs[c] = <<Get("diskspace")>>

\* The text str() gives for each date the callers pass.
DateText(v) ==
    CASE v = PyS("") -> ""
      [] v = PyS("2024-01-01") -> "2024-01-01"
      [] v = PyI(20240102) -> "20240102"

\* C7: calendar() sends one GET calendar whose parameters are exactly: start,
\* as text, when start was supplied, and end, as text, when end was supplied.
C7_CalendarParams ==
    \A c \in Callers :
        op[c] = "calendar" =>
            /\ Len(reqs[c]) = 1
            /\ reqs[c][1].path = "calendar"
            /\ reqs[c][1].method = "GET"
            /\ reqs[c][1].data = <<>>
            /\ LET params == reqs[c][1].params IN
               /\ \A i, k \in DOMAIN params : params[i][1] = params[k][1] => i = k
               /\ {params[i][1] : i \in DOMAIN params}
                      = {k \in {"start", "end"} : args[c][k] # PyNone}
               /\ \A i \in DOMAIN params :
                      params[i][2] = PyS(DateText(args[c][params[i][1]]))

\* calendar(start=20240102) has sent start="20240102" and nothing else.
C7_Witness ==
    \E c \in Callers :
        /\ op[c] = "calendar"
        /\ args[c].start = PyI(20240102)
        /\ args[c].end = PyNone
        /\ reqs[c][1].params = <<<<"start", PyS("20240102")>>>>

\* The text str() gives for each page and page size the callers pass.
PageText(v) ==
    CASE v = PyI(1) -> "1"
      [] v = PyI(12) -> "12"
      [] v = PyI(10) -> "10"
      [] v = PyI(250) -> "250"

\* C8: wanted() sends one GET wanted/missing with exactly the keys sortKey,
\* page, pageSize and sortDir: page and pageSize as text, sortKey and sortDir
\* as given; with the defaults they are airDateUtc, "1", "10" and desc.
C8_WantedParams ==
    \A c \in Callers :
        op[c] = "wanted" =>
            /\ Len(reqs[c]) = 1
            /\ reqs[c][1].path = "wanted/missing"
            /\ reqs[c][1].method = "GET"
            /\ reqs[c][1].data = <<>>
            /\ Len(reqs[c][1].params) = 4
            /\ {reqs[c][1].params[i] : i \in 1..4} =
                   {<<"sortKey", args[c].sort_key>>,
                    <<"page", PyS(PageText(args[c].page))>>,
                    <<"pageSize", PyS(PageText(args[c].page_size))>>,
                    <<"sortDir", args[c].sort_dir>>}
            /\ args[c] = NoArgs =>
                   {reqs[c][1].params[i] : i \in 1..4} =
                       {<<"sortKey", PyS("airDateUtc")>>, <<"page", PyS("1")>>,
                        <<"pageSize", PyS("10")>>, <<"sortDir", PyS("desc")>>}

\* wanted() with the defaults has been sent.
C8_WitnessDefaults ==
    \E c \in Callers :
        /\ op[c] = "wanted"
        /\ args[c] = NoArgs
        /\ reqs[c][1].params[3] = <<"pageSize", PyS("10")>>

\* The keys of the creation payload add_series builds, as the source lists them.
SeriesKeys ==
    <<"title", "qualityProfileId", "titleSlug", "images", "tvdbId", "path",
      "seasons", "rootFolderPath", "monitored", "addOptions">>

\* The poster urls among a server payload's images.
PosterUrls(j) ==
    {j.images[i].url : i \in {k \in DOMAIN j.images : j.images[k].coverType = "poster"}}

\* C9: add_series() sends one POST series whose body, for every server payload
\* the SeriesItem was built from, carries that payload's title, its slug as
\* titleSlug, its poster url as the one poster image, its tvdbId and its
\* seasons in order, with qualityProfileId 1, rootFolderPath /tv, path
\* /tv/<title>, monitored and searchForMissingEpisodes true.
C9_AddSeriesRoundTrip ==
    \A c \in Callers :
        op[c] = "add_series" =>
            /\ Len(reqs[c]) = 1
            /\ reqs[c][1].method = "POST"
            /\ reqs[c][1].path = "series"
            /\ reqs[c][1].params = <<>>
            /\ Len(reqs[c][1].data) = 1
            /\ args[c].series_item \in SeriesItems
            /\ \A j \in ServerPayloads :
                   args[c].series_item = SeriesItemFromDict(j) =>
                       LET body == reqs[c][1].data[1] IN
                       /\ DOMAIN body = {SeriesKeys[i] : i \in DOMAIN SeriesKeys}
                       /\ body.title = j.title
                       /\ body.titleSlug = j.titleSlug
                       /\ Len(body.images) = 1
                       /\ body.images[1].coverType = "poster"
                       /\ PosterUrls(j) = {body.images[1].url}
                       /\ body.tvdbId = j.tvdbId
                       /\ body.seasons = j.seasons
                       /\ body.qualityProfileId = 1
                       /\ body.rootFolderPath = "/tv"
                       /\ body.path = "/tv/" \o j.title
                       /\ body.monitored
                       /\ body.addOptions.searchForMissingEpisodes

\* add_series() has returned for The Office, whose slug differs from its title.
C9_Witness ==
    \E c \in Callers :
        /\ op[c] = "add_series"
        /\ pc[c] = "done"
        /\ result[c] = "ok"
        /\ reqs[c][1].data[1].titleSlug = "the-office-us"
        /\ reqs[c][1].data[1].path = "/tv/The Office"
        /\ Len(reqs[c][1].data[1].seasons) = 1

\* C10: when a request of update() fails, the call ends with that SonarrError
\* having issued nothing more, and the cache is what it was when the call
\* began; a call that failed without a status in hand requested system/status
\* alone; no request is issued twice; update() on an absent cache starts with
\* system/status.
C10_UpdateFailureAtomic ==
    [][\A c \in Callers :
          /\ (op[c] = "update" /\ result[c] = "none" /\ result'[c] \in SonarrErrors)
                 => /\ pc'[c] = "done"
                    /\ reqs'[c] = reqs[c]
                    /\ _application' = _application
                    /\ _application' = pre'
          /\ (pc[c] = "await_status" /\ result'[c] \in SonarrErrors)
                 => reqs'[c] = <<Get("system/status")>>
          /\ \A i, k \in DOMAIN reqs'[c] : reqs'[c][i] = reqs'[c][k] => i = k
          /\ (pc[c] = "idle" /\ op'[c] = "update" /\ ~_application.present)
                 => (pc'[c] = "await_status" /\ reqs'[c] = <<Get("system/status")>>)]_vars

\* A full update on a populated cache got a new status and then failed on
\* diskspace: the cache still holds the old info.
C10_Witness ==
    \E c \in Callers :
        /\ op[c] = "update"
        /\ result[c] = TransportError
        /\ Len(reqs[c]) = 2
        /\ pre.present
        /\ status[c] # pre.info
        /\ _application = pre
====
